---- MODULE Spec2Model ----
(***************************************************************************)
(* A model of bambi's PyMC3 back-end (src/bambi/backends/pymc.py):         *)
(* PyMC3BackEnd.reset, _build_dist, build and run, and the module-level    *)
(* _laplace.  The PyMC3 runtime is the environment: its registry of        *)
(* distributions, the class of the variable a distribution constructs,     *)
(* its refusal of a duplicate variable name, and the Hessian it computes.  *)
(***************************************************************************)
EXTENDS Integers, Sequences, FiniteSets, TLC

VARIABLES
    pmAttrs,      \* the names hasattr(pm, name) answers for (the runtime's registry)
    specs,        \* the abstract model specifications (Model objects), by id
    model,        \* self.model: the variables of the pm.Model, in creation order
    mu,           \* self.mu
    par_groups,   \* self.par_groups
    spec,         \* self.spec
    trace,        \* self.trace
    advi_params,  \* self.advi_params
    last          \* the last call on the back-end and what it did (history)

vars == <<pmAttrs, specs, model, mu, par_groups, spec, trace, advi_params, last>>

-----------------------------------------------------------------------------
(* Bounds *)

\* Number of observations (rows of every data matrix and of the response).
NObs == 2

-----------------------------------------------------------------------------
(* Values: numbers, nested priors, shapes, data and random variables *)

Num(n) == [tag |-> "num", v |-> n]

ShapeT(dims) == [tag |-> "shape", dims |-> dims]

Data(name, n) == [tag |-> "data", name |-> name, n |-> n]

Prior(name, args) == [tag |-> "prior", name |-> name, args |-> args]

RV(name, cls) == [tag |-> "rv", name |-> name, cls |-> cls]

NoVal == [tag |-> "none"]

\* isinstance(value, Prior)
IsPrior(v) == v.tag = "prior"

\* isinstance(value, pm.model.TransformedRV)
IsTransformedRV(v) == v.tag = "rv" /\ v.cls = "TransformedRV"

(* Keyword arguments: a dict, kept as the sequence of its (key, value)      *)
(* pairs in insertion order.                                               *)
Keys(d) == {d[i][1] : i \in 1..Len(d)}

HasKey(d, k) == k \in Keys(d)

Get(d, k) == d[CHOOSE i \in 1..Len(d) : d[i][1] = k][2]

\* d[k] = v: an existing key keeps its place, a new key goes last.
Put(d, k, v) ==
    IF HasKey(d, k)
    THEN [i \in 1..Len(d) |-> IF d[i][1] = k THEN <<k, v>> ELSE d[i]]
    ELSE Append(d, <<k, v>>)

-----------------------------------------------------------------------------
(* The registries *)

\* PyMC3BackEnd.dists
dists == {"HalfFlat"}

\* PyMC3BackEnd.links
links == {"identity", "logit", "inverse", "inverse_squared", "log"}

\* What every version of the runtime has, and what only the later ones have.
PmBase == {"Normal", "HalfNormal", "HalfCauchy", "Bernoulli"}

PmLater == {"HalfFlat", "HalfStudentT"}

\* The distributions whose free variable the runtime transforms.
PmTransformed == {"HalfNormal", "HalfCauchy", "HalfFlat", "HalfStudentT"}

\* An exception: its class and the parts of its message.
NoErr == [type |-> "none", msg |-> <<>>]

Err(type, msg) == [type |-> type, msg |-> msg]

\* The local table consulted before the runtime.
ResolveLocalFirst(dist) ==
    IF dist \in dists THEN [src |-> "backend", name |-> dist]
    ELSE IF dist \in pmAttrs THEN [src |-> "pm", name |-> dist]
    ELSE [src |-> "unknown", name |-> dist]

\* hasattr(pm, dist), then dist in self.dists, then neither.
Resolve(dist) ==
    IF dist \in pmAttrs THEN [src |-> "pm", name |-> dist]
    ELSE IF dist \in dists THEN [src |-> "backend", name |-> dist]
    ELSE [src |-> "unknown", name |-> dist]

-----------------------------------------------------------------------------
(* The model graph.  A build threads st = [vars, err, log] through its     *)
(* calls: the variables so far, the exception raised (if any), and one     *)
(* entry per _build_dist call that reached its end or raised in its body.  *)

Var(name, cls, rd, shape, tname, expr) ==
    [name |-> name, cls |-> cls, dist |-> rd, shape |-> shape,
     tname |-> tname, expr |-> expr]

Names(vs) == {vs[i].name : i \in 1..Len(vs)}

\* The runtime registers a variable under its name, and refuses a name twice.
AddVar(st, v) ==
    IF st.err.type # "none" THEN st
    ELSE IF v.name \in Names(st.vars)
    THEN [st EXCEPT !.err = Err("ValueError", <<"Variable name ", v.name, " already exists.">>)]
    ELSE [st EXCEPT !.vars = Append(@, v)]

AsShape(v) == IF v.tag = "num" THEN <<v.v>> ELSE v.dims

VarShape(kwargs) ==
    IF HasKey(kwargs, "shape") THEN AsShape(Get(kwargs, "shape"))
    ELSE IF HasKey(kwargs, "observed") THEN <<Get(kwargs, "observed").n>>
    ELSE <<>>

TransformSuffix(rd) == IF rd.src = "backend" THEN "_lowerbound__" ELSE "_log__"

\* dist(label, **kwargs): the runtime's construction of a variable.
Construct(st, label, rd, kwargs) ==
    IF HasKey(kwargs, "observed")
    THEN [st |-> AddVar(st, Var(label, "ObservedRV", rd, VarShape(kwargs), FALSE, <<>>)),
          val |-> RV(label, "ObservedRV")]
    ELSE IF rd.name \in PmTransformed
    THEN [st |-> AddVar(AddVar(st, Var(label \o TransformSuffix(rd), "FreeRV", rd,
                                       VarShape(kwargs), TRUE, <<>>)),
                        Var(label, "TransformedRV", rd, VarShape(kwargs), FALSE, <<>>)),
          val |-> RV(label, "TransformedRV")]
    ELSE [st |-> AddVar(st, Var(label, "FreeRV", rd, VarShape(kwargs), FALSE, <<>>)),
          val |-> RV(label, "FreeRV")]

\* The condition of the non-centered branch.
NonCenteredCond(nc, kwargs) ==
    /\ nc
    /\ HasKey(kwargs, "sigma")
    /\ ~HasKey(kwargs, "observed")
    /\ IsTransformedRV(Get(kwargs, "sigma"))

\* The non-centered branch: kwargs["shape"] raises KeyError when absent.
NonCentered(st, label, kwargs) ==
    IF ~HasKey(kwargs, "shape")
    THEN [st |-> [st EXCEPT !.err = Err("KeyError", <<"shape">>)], val |-> NoVal]
    ELSE LET old_sigma == Get(kwargs, "sigma")
             shape == AsShape(Get(kwargs, "shape"))
             s1 == AddVar(st, Var(label \o "_offset", "FreeRV",
                                  [src |-> "pm", name |-> "Normal"], shape, FALSE, <<>>))
             s2 == AddVar(s1, Var(label, "Deterministic",
                                  [src |-> "pm", name |-> "Deterministic"], shape, FALSE,
                                  <<label \o "_offset", old_sigma.name>>))
         IN [st |-> s2, val |-> RV(label, "Deterministic")]

LogEntry(label, dist, nc, kwargs, before, st) ==
    [label |-> label, dist |-> dist, nc |-> nc, kwargs |-> kwargs,
     added |-> SubSeq(st.vars, Len(before.vars) + 1, Len(st.vars)),
     err |-> st.err]

Logged(r, e) == [r EXCEPT !.st.log = Append(@, e)]

RECURSIVE BuildDist(_, _, _, _, _)
RECURSIVE ExpandArgs(_, _, _, _, _, _)

\* kwargs = {k: _expand_args(k, v, label) for (k, v) in kwargs.items()}
ExpandArgs(st, nc, label, kwargs, i, acc) ==
    IF i > Len(kwargs) \/ st.err.type # "none" THEN [st |-> st, kwargs |-> acc]
    ELSE LET k == kwargs[i][1]
             v == kwargs[i][2]
         IN IF IsPrior(v)
            THEN LET r == BuildDist(st, nc, label \o "_" \o k, v.name, v.args)
                 IN ExpandArgs(r.st, nc, label, kwargs, i + 1, Append(acc, <<k, r.val>>))
            ELSE ExpandArgs(st, nc, label, kwargs, i + 1, Append(acc, <<k, v>>))

\* PyMC3BackEnd._build_dist(spec, label, dist, **kwargs), spec.noncentered = nc
BuildDist(st, nc, label, dist, kwargs) ==
    LET rd == Resolve(dist)
    IN IF rd.src = "unknown"
       THEN LET s1 == [st EXCEPT !.err = Err("ValueError",
                          <<"The Distribution ", dist,
                            " was not found in PyMC3 or the PyMC3BackEnd.">>)]
            IN Logged([st |-> s1, val |-> NoVal],
                      LogEntry(label, dist, nc, kwargs, st, s1))
       ELSE LET e == ExpandArgs(st, nc, label, kwargs, 1, <<>>)
            IN IF e.st.err.type # "none" THEN [st |-> e.st, val |-> NoVal]
               ELSE LET r == IF NonCenteredCond(nc, e.kwargs)
                             THEN NonCentered(e.st, label, e.kwargs)
                             ELSE Construct(e.st, label, rd, e.kwargs)
                    IN Logged(r, LogEntry(label, dist, nc, e.kwargs, e.st, r.st))

-----------------------------------------------------------------------------
(* The abstract specifications build is given *)

Matrix(n, k) == [i \in 1..n |-> [j \in 1..k |-> i + j]]

\* A term with k design columns; for a random term the k columns are its groups.
Term(name, random, k, prior) ==
    [name |-> name, random |-> random, data |-> Matrix(NObs, k), prior |-> prior,
     group_index |-> [i \in 1..NObs |-> (NObs - i) % k],
     predictor |-> [i \in 1..NObs |-> i + 1]]

Family(prior, link, parent) == [prior |-> prior, link |-> link, parent |-> parent]

Model(nc, terms, family) ==
    [noncentered |-> nc, terms |-> terms, y |-> [name |-> "y", n |-> NObs],
     family |-> family]

SpecIds == {"s1", "s2", "s3", "s4"}

Pool(nc) ==
    [sid \in SpecIds |->
       CASE sid = "s1" ->
            Model(nc,
              << Term("Intercept", FALSE, 1,
                      Prior("Normal", << <<"mu", Num(0)>>, <<"sigma", Num(1)>> >>)),
                 Term("x", FALSE, 2,
                      Prior("Normal", << <<"mu", Num(0)>>,
                            <<"sigma", Prior("HalfCauchy", << <<"beta", Num(1)>> >>)>> >>)) >>,
              Family(Prior("Normal",
                       << <<"sigma", Prior("HalfNormal", << <<"sigma", Num(1)>> >>)>> >>),
                     "identity", "mu"))
         [] sid = "s2" ->
            Model(nc,
              << Term("Intercept", FALSE, 1,
                      Prior("Normal", << <<"mu", Num(0)>>, <<"sigma", Num(1)>> >>)),
                 Term("g", TRUE, 3,
                      Prior("Normal",
                        << <<"mu", Prior("Normal",
                                     << <<"mu", Prior("Normal", << <<"mu", Num(0)>>,
                                                                   <<"sigma", Num(1)>> >>)>>,
                                        <<"sigma", Num(1)>> >>)>>,
                           <<"sigma", Prior("HalfNormal",
                                        << <<"sigma", Prior("HalfCauchy",
                                                        << <<"beta", Num(1)>> >>)>> >>)>> >>)) >>,
              Family(Prior("Bernoulli", <<>>), "logit", "p"))
         [] sid = "s3" ->
            Model(nc,
              << Term("x", FALSE, 1, Prior("HalfFlat", <<>>)),
                 Term("w", TRUE, 2,
                      Prior("Normal", << <<"mu", Num(0)>>,
                            <<"sigma", Prior("HalfNormal",
                                         << <<"sigma", Num(1)>>,
                                            <<"shape", ShapeT(<<1, 2>>)>> >>)>> >>)) >>,
              Family(Prior("Normal", << <<"sigma", Num(1)>> >>), "log", "mu"))
         [] sid = "s4" ->
            Model(nc,
              << Term("v", FALSE, 1,
                      Prior("Normal", << <<"mu", Num(0)>>, <<"sigma", Num(1)>> >>)),
                 Term("z", FALSE, 1,
                      Prior("Normal", << <<"mu", Num(0)>>,
                            <<"sigma", Prior("HalfStudentT", << <<"nu", Num(3)>> >>)>> >>)) >>,
              Family(Prior("Bernoulli", <<>>), "probit", "p"))]

-----------------------------------------------------------------------------
(* build *)

\* self.mu: None, or the contributions added to 0.0, one per term.
MuNone == [set |-> FALSE, terms |-> <<>>]

MuOf(terms) == [set |-> TRUE, terms |-> terms]

\* The coefficient taken by row number instead of by group: coef[:, None] * t.predictor
RandomContributionByRow(t, coef) ==
    [label |-> coef.name,
     rows |-> [i \in 1..Len(t.data) |->
                 << [idx |-> i - 1, scale |-> t.predictor[i]] >>]]

\* coef[t.group_index][:, None] * t.predictor
RandomContribution(t, coef) ==
    [label |-> coef.name,
     rows |-> [i \in 1..Len(t.data) |->
                 << [idx |-> t.group_index[i], scale |-> t.predictor[i]] >>]]

\* pm.math.dot(data, coef)[:, None]
FixedContribution(t, coef) ==
    [label |-> coef.name,
     rows |-> [i \in 1..Len(t.data) |->
                 [j \in 1..Len(t.data[i]) |-> [idx |-> j - 1, scale |-> t.data[i][j]]]]]

Contribution(t, coef) ==
    IF t.random THEN RandomContribution(t, coef) ELSE FixedContribution(t, coef)

RECURSIVE BuildTerms(_, _, _, _)
\* for t in spec.terms.values(): ...
BuildTerms(st, m, sp, i) ==
    IF i > Len(sp.terms) \/ st.err.type # "none" THEN [st |-> st, mu |-> m]
    ELSE LET t == sp.terms[i]
             n_cols == Len(t.data[1])
             r == IF HasKey(t.prior.args, "shape")
                  THEN [st |-> [st EXCEPT !.err = Err("TypeError", <<"shape">>)],
                        val |-> NoVal]
                  ELSE BuildDist(st, sp.noncentered, t.name, t.prior.name,
                                 << <<"shape", Num(n_cols)>> >> \o t.prior.args)
         IN IF r.st.err.type # "none" THEN [st |-> r.st, mu |-> m]
            ELSE BuildTerms(r.st, Append(m, Contribution(t, r.val)), sp, i + 1)

Tensor(link, terms) == [tag |-> "tensor", link |-> link, mu |-> terms]

\* The body of build under "with self.model", from the variables m0.
BuildModel(m0, sp) ==
    LET st0 == [vars |-> m0, err |-> NoErr, log |-> <<>>]
        a == BuildTerms(st0, <<>>, sp, 1)
        y_prior == sp.family.prior
    IN IF a.st.err.type # "none"
       THEN [st |-> a.st, mu |-> a.mu, yargs |-> y_prior.args, done |-> FALSE]
       ELSE IF sp.family.link \notin links
       THEN [st |-> [a.st EXCEPT !.err = Err("KeyError", <<sp.family.link>>)],
             mu |-> a.mu, yargs |-> y_prior.args, done |-> FALSE]
       ELSE LET args1 == Put(y_prior.args, sp.family.parent,
                             Tensor(sp.family.link, a.mu))
                args2 == Put(args1, "observed", Data(sp.y.name, sp.y.n))
                r == BuildDist(a.st, sp.noncentered, sp.y.name, y_prior.name, args2)
            IN [st |-> r.st, mu |-> a.mu, yargs |-> args2,
                done |-> r.st.err.type = "none"]

-----------------------------------------------------------------------------
(* _laplace *)

RECURSIVE SumSeq(_)
SumSeq(q) == IF q = <<>> THEN 0 ELSE q[1] + SumSeq(Tail(q))

RECURSIVE ProdSeq(_)
ProdSeq(q) == IF q = <<>> THEN 1 ELSE q[1] * ProdSeq(Tail(q))

\* v.size
Size(shape) == ProdSeq(shape)

IsFree(v) == v.cls = "FreeRV"

IsDeterministic(v) == v.cls \in {"TransformedRV", "Deterministic"}

NotTransformedName(v) == ~v.tname

\* [v for v in model.unobserved_RVs if not pm.util.is_transformed_name(v.name)]
\* unobserved_RVs is the free variables followed by the deterministics.
Varis(m) ==
    SelectSeq(SelectSeq(m, IsFree) \o SelectSeq(m, IsDeterministic), NotTransformedName)

\* np.atleast_1d(mode).shape, mode = v.item() if v.size == 1 else v
ModeShape(shape) == IF Size(shape) = 1 THEN <<1>> ELSE shape

Shapes(varis) == [i \in 1..Len(varis) |-> ModeShape(varis[i].shape)]

\* The Hessian has one row per element of the variables in varis.
HessianDim(varis) == SumSeq([i \in 1..Len(varis) |-> Size(varis[i].shape)])

Min(a, b) == IF a < b THEN a ELSE b

SwapRows(M, a, b) ==
    [i \in 1..Len(M) |-> IF i = a THEN M[b] ELSE IF i = b THEN M[a] ELSE M[i]]

RECURSIVE Elim(_, _, _, _)
\* Fraction-free elimination from column k on; prev is the previous pivot.
Elim(M, k, prev, sign) ==
    LET n == Len(M)
    IN IF k > n THEN sign * prev
       ELSE IF \A i \in k..n : M[i][k] = 0 THEN 0
       ELSE LET p == CHOOSE i \in k..n : M[i][k] # 0 /\ \A j \in k..(i - 1) : M[j][k] = 0
                S == SwapRows(M, k, p)
                R == [i \in 1..n |-> [j \in 1..n |->
                        IF i > k /\ j > k
                        THEN (S[k][k] * S[i][j] - S[i][k] * S[k][j]) \div prev
                        ELSE S[i][j]]]
            IN Elim(R, k + 1, S[k][k], IF p = k THEN sign ELSE -sign)

\* np.linalg.det(hessian), on integer matrices
Det(M) == Elim(M, 1, 1, 1)

\* for shape in shapes: idx1 = idx0 + sum(shape); reshape(stds[idx0:idx1], shape)
\* A slice is cut at the end of stds; reshape raises unless the slice has
\* as many elements as the shape.
RECURSIVE Walk(_, _, _, _, _)
Walk(shapes, n, i, idx0, acc) ==
    IF i > Len(shapes) THEN [slices |-> acc, err |-> NoErr]
    ELSE LET shape == shapes[i]
             idx1 == idx0 + SumSeq(shape)
             got == Min(idx1, n) - Min(idx0, n)
             sl == [idx0 |-> idx0, idx1 |-> idx1, got |-> got, shape |-> shape]
         IN IF got # ProdSeq(shape)
            THEN [slices |-> Append(acc, sl),
                  err |-> Err("ValueError", <<"cannot reshape array">>)]
            ELSE Walk(shapes, n, i + 1, idx1, Append(acc, sl))

\* A test of the determinant's sign alone.
IsSingularNegative(det) == det < 0

\* np.linalg.det(hessian) == 0
IsSingular(det) == det = 0

NoLaplace ==
    [called |-> FALSE, names |-> <<>>, sizes |-> <<>>, n |-> 0, det |-> 0,
     inverted |-> FALSE, slices |-> <<>>, err |-> NoErr, returned |-> FALSE]

\* _laplace(model), with the Hessian the runtime finds at the MAP point
Laplace(m, hessian) ==
    LET varis == Varis(m)
        n == Len(hessian)
        det == Det(hessian)
        base == [NoLaplace EXCEPT !.called = TRUE,
                   !.names = [i \in 1..Len(varis) |-> varis[i].name],
                   !.sizes = [i \in 1..Len(varis) |-> Size(varis[i].shape)],
                   !.n = n, !.det = det]
    IN IF IsSingular(det)
       THEN [base EXCEPT !.err = Err("LinAlgError",
                                     <<"Singular matrix. Use mcmc or advi method">>)]
       ELSE LET w == Walk(Shapes(varis), n, 1, 0, <<>>)
            IN [base EXCEPT !.inverted = TRUE, !.slices = w.slices, !.err = w.err,
                            !.returned = w.err.type = "none"]

ScalarMat(n, c) == [i \in 1..n |-> [j \in 1..n |-> IF i = j THEN c ELSE 0]]

OnesMat(n) == [i \in 1..n |-> [j \in 1..n |-> 1]]

TridiagMat(n) ==
    [i \in 1..n |-> [j \in 1..n |->
        IF i = j THEN 2 ELSE IF i = j + 1 \/ j = i + 1 THEN -1 ELSE 0]]

\* The Hessians the runtime may find for a model with n elements.
Hessians(n) == {ScalarMat(n, 0), ScalarMat(n, 1), ScalarMat(n, 2), OnesMat(n), TridiagMat(n)}

-----------------------------------------------------------------------------
(* The back-end's operations *)

NoArg == [sid |-> "None", reset |-> FALSE, method |-> <<>>]

\* had: how many variables self.model held when the call began.
Last(op, arg, err, log, ret, lap) ==
    [op |-> op, arg |-> arg, err |-> err, log |-> log, ret |-> ret, lap |-> lap,
     had |-> Len(model)]

\* The response prior's arguments replaced by the two slots alone.
SpecAfterReplaced(sp, yargs) ==
    [sp EXCEPT !.family.prior.args =
        IF yargs = sp.family.prior.args THEN yargs
        ELSE << <<sp.family.parent, Get(yargs, sp.family.parent)>>,
                <<"observed", Get(yargs, "observed")>> >>]

\* The specification after build wrote y_prior.args[parent] and ["observed"].
SpecAfter(sp, yargs) == [sp EXCEPT !.family.prior.args = yargs]

\* The variables build starts from, with the reset skipped.
StartModelKept(reset) == model

\* if reset: self.reset()
StartModel(reset) == IF reset THEN <<>> ELSE model

\* PyMC3BackEnd.reset()
Reset ==
    /\ model' = <<>>
    /\ mu' = MuNone
    /\ par_groups' = {}
    /\ last' = Last("reset", NoArg, NoErr, <<>>, "None", NoLaplace)
    /\ UNCHANGED <<pmAttrs, specs, spec, trace, advi_params>>

\* PyMC3BackEnd.build(spec, reset)
Build(sid, reset) ==
    \E r \in {BuildModel(StartModel(reset), specs[sid])} :
       /\ model' = r.st.vars
       /\ mu' = MuOf(r.mu)
       /\ par_groups' = IF reset THEN {} ELSE par_groups
       /\ specs' = [specs EXCEPT ![sid] = SpecAfter(specs[sid], r.yargs)]
       /\ spec' = IF r.done THEN sid ELSE spec
       /\ last' = Last("build", [sid |-> sid, reset |-> reset, method |-> <<>>],
                       r.st.err, r.st.log, "None", NoLaplace)
       /\ UNCHANGED <<pmAttrs, trace, advi_params>>

(* A method string is the sequence of its characters. *)
LowerCase == <<"a", "c", "d", "e", "i", "l", "m", "n", "p", "s", "t", "u", "v">>

UpperCase == <<"A", "C", "D", "E", "I", "L", "M", "N", "P", "S", "T", "U", "V">>

\* str.lower(), one character
LowerChar(c) ==
    IF \E i \in 1..Len(UpperCase) : UpperCase[i] = c
    THEN LowerCase[CHOOSE i \in 1..Len(UpperCase) : UpperCase[i] = c]
    ELSE c

UpperChar(c) ==
    IF \E i \in 1..Len(LowerCase) : LowerCase[i] = c
    THEN UpperCase[CHOOSE i \in 1..Len(LowerCase) : LowerCase[i] = c]
    ELSE c

\* The method compared as given.
LowerNot(method) == method

\* The method lowered and cut at its first blank: method.split(" ")[0].lower()
LowerFirstWord(method) ==
    LET cut == IF \E i \in 1..Len(method) : method[i] = " "
               THEN (CHOOSE i \in 1..Len(method) :
                        method[i] = " " /\ \A j \in 1..(i - 1) : method[j] # " ") - 1
               ELSE Len(method)
    IN [i \in 1..cut |-> LowerChar(method[i])]

\* method.lower()
Lower(method) == [i \in 1..Len(method) |-> LowerChar(method[i])]

MCMC == <<"m", "c", "m", "c">>

ADVI == <<"a", "d", "v", "i">>

LAPLACE == <<"l", "a", "p", "l", "a", "c", "e">>

\* What the runtime returns for the model: a trace, or variational
\* parameters, of the model's variables.
NoFit == [set |-> FALSE, varnames |-> <<>>]

FitOf(m) == [set |-> TRUE, varnames |-> [i \in 1..Len(m) |-> m[i].name]]

RunArg(method) == [sid |-> "None", reset |-> FALSE, method |-> method]

\* PyMC3BackEnd.run(method=method): sampled says whether the runtime's call
\* (pm.sample, ADVI, find_MAP and find_hessian) returns rather than raises;
\* hessian is what find_hessian returns.
Run(method, sampled, hessian) ==
    IF Lower(method) = MCMC
    THEN /\ trace' = IF sampled THEN FitOf(model) ELSE trace
         /\ last' = Last("run", RunArg(method),
                         IF sampled THEN NoErr ELSE Err("RuntimeError", <<"pm.sample">>),
                         <<>>, IF sampled THEN "InferenceData" ELSE "raise", NoLaplace)
         /\ UNCHANGED <<pmAttrs, specs, model, mu, par_groups, spec, advi_params>>
    ELSE IF Lower(method) = ADVI
    THEN /\ advi_params' = IF sampled THEN FitOf(model) ELSE advi_params
         /\ last' = Last("run", RunArg(method),
                         IF sampled THEN NoErr ELSE Err("RuntimeError", <<"pm.variational.ADVI">>),
                         <<>>, IF sampled THEN "advi_params" ELSE "raise", NoLaplace)
         /\ UNCHANGED <<pmAttrs, specs, model, mu, par_groups, spec, trace>>
    ELSE IF Lower(method) = LAPLACE
    THEN /\ \E lap \in {IF sampled THEN Laplace(model, hessian)
                        ELSE [NoLaplace EXCEPT !.err = Err("RuntimeError", <<"pm.find_MAP">>)]} :
              last' = Last("run", RunArg(method), lap.err, <<>>,
                           IF lap.returned THEN "dict" ELSE "raise", lap)
         /\ UNCHANGED <<pmAttrs, specs, model, mu, par_groups, spec, trace, advi_params>>
    ELSE /\ last' = Last("run", RunArg(method), NoErr, <<>>, "None", NoLaplace)
         /\ UNCHANGED <<pmAttrs, specs, model, mu, par_groups, spec, trace, advi_params>>

RECURSIVE CaseVariants(_)
\* Every spelling of a word in upper and lower case.
CaseVariants(word) ==
    IF word = <<>> THEN {<<>>}
    ELSE {<<c>> \o rest : c \in {word[1], UpperChar(word[1])},
                          rest \in CaseVariants(Tail(word))}

OtherMethods ==
    { <<>>, <<"n", "u", "t", "s">>, <<"m", "c", "m", "c", " ">>, <<"v", "i">>,
      <<"M", "A", "P">>, <<"a", "d", "v", "i", "_", "m", "a", "p">>,
      <<"v", "a", "r", "i", "a", "t", "i", "o", "n", "a", "l">> }

\* The first k characters of a word in upper case.
CapPrefix(word, k) == [i \in 1..Len(word) |-> IF i <= k THEN UpperChar(word[i]) ELSE word[i]]

Methods ==
    CaseVariants(MCMC) \cup CaseVariants(ADVI)
        \cup {CapPrefix(LAPLACE, k) : k \in 0..Len(LAPLACE)} \cup OtherMethods

\* The methods of the specification that follows whole builds.
FewMethods == { CapPrefix(LAPLACE, 1), <<"n", "u", "t", "s">> }

HessianInputs(method) ==
    IF Lower(method) = LAPLACE THEN Hessians(HessianDim(Varis(model))) ELSE {<<>>}

Init ==
    /\ pmAttrs \in {PmBase, PmBase \cup PmLater}
    /\ specs \in {Pool(nc) : nc \in BOOLEAN}
    /\ model = <<>>
    /\ mu = MuNone
    /\ par_groups = {}
    /\ spec = "None"
    /\ trace = NoFit
    /\ advi_params = NoFit
    /\ last = Last("init", NoArg, NoErr, <<>>, "None", NoLaplace)

\* Every build and reset, and run with a few methods.
Next ==
    \/ Reset
    \/ \E sid \in SpecIds, reset \in BOOLEAN : Build(sid, reset)
    \/ \E method \in FewMethods, sampled \in BOOLEAN :
          \E hessian \in HessianInputs(method) : Run(method, sampled, hessian)

Spec == Init /\ [][Next]_vars

RunHessians(method) ==
    IF Lower(method) = LAPLACE
    THEN {ScalarMat(HessianDim(Varis(model)), 0), TridiagMat(HessianDim(Varis(model)))}
    ELSE {<<>>}

\* run with every method, on the model of one specification.
RunNext ==
    \/ Build("s3", TRUE)
    \/ \E method \in Methods, sampled \in BOOLEAN :
          \E hessian \in RunHessians(method) : Run(method, sampled, hessian)

RunSpec == Init /\ [][RunNext]_vars

-----------------------------------------------------------------------------
(* Properties *)

LastBuild == last.op = "build"

LastRun == last.op = "run"

LogEntries == {last.log[i] : i \in 1..Len(last.log)}

\* The call's distribution resolved, and the runtime refused no variable.
Settled(e) == e.err.type \in {"none", "KeyError"}

\* The four conditions of the non-centered branch, on a call's expanded arguments.
FourHold(e) ==
    /\ e.nc
    /\ \E i \in 1..Len(e.kwargs) : e.kwargs[i][1] = "sigma"
    /\ ~\E i \in 1..Len(e.kwargs) : e.kwargs[i][1] = "observed"
    /\ \E i \in 1..Len(e.kwargs) :
          /\ e.kwargs[i][1] = "sigma"
          /\ e.kwargs[i][2].tag = "rv"
          /\ e.kwargs[i][2].cls = "TransformedRV"

\* The call created <label>_offset, a standard normal, and then the
\* deterministic <label> = offset * sigma.
TookNonCentered(e) ==
    /\ Len(e.added) = 2
    /\ e.added[1].name = e.label \o "_offset"
    /\ e.added[1].dist.name = "Normal"
    /\ e.added[2].name = e.label
    /\ e.added[2].cls = "Deterministic"
    /\ e.added[2].expr[1] = e.label \o "_offset"
    /\ \E i \in 1..Len(e.kwargs) :
          e.kwargs[i][1] = "sigma" /\ e.added[2].expr[2] = e.kwargs[i][2].name

\* The call constructed the resolved distribution under <label>, and no offset.
TookDirect(e) ==
    /\ Len(e.added) >= 1
    /\ e.added[Len(e.added)].name = e.label
    /\ e.added[Len(e.added)].cls # "Deterministic"
    /\ e.added[Len(e.added)].dist.name = e.dist
    /\ \A i \in 1..Len(e.added) : e.added[i].name # e.label \o "_offset"

(* C1: every _build_dist call takes the non-centered branch (creates       *)
(* <label>_offset and returns the deterministic <label> = offset * sigma)  *)
(* if and only if spec.noncentered holds, "sigma" is a keyword argument,   *)
(* "observed" is not, and the expanded sigma is a transformed random       *)
(* variable; every other call constructs the distribution directly.       *)
C1_NonCenteredIff ==
    LastBuild =>
        \A e \in LogEntries :
            Settled(e) =>
                /\ FourHold(e) <=> TookNonCentered(e)
                /\ ~FourHold(e) => TookDirect(e)

\* The variables a call constructed from its distribution under its label.
Constructed(e) ==
    {e.added[i] : i \in {j \in 1..Len(e.added) :
                            e.added[j].name = e.label /\ e.added[j].cls # "Deterministic"}}

(* C2: a distribution named by a string resolves first as a built-in of    *)
(* the runtime and only otherwise in the local table dists; a name in      *)
(* both resolves to the built-in; a name in neither raises the unknown-    *)
(* distribution error, whose message holds the name, and constructs        *)
(* nothing.                                                                *)
C2_ResolutionOrder ==
    LastBuild =>
        \A e \in LogEntries :
            /\ e.dist \in pmAttrs => \A v \in Constructed(e) : v.dist.src = "pm"
            /\ (e.dist \notin pmAttrs /\ e.dist \in dists) =>
                   \A v \in Constructed(e) : v.dist.src = "backend"
            /\ e.dist \notin (pmAttrs \cup dists) =>
                   /\ e.err.type = "ValueError"
                   /\ \E i \in 1..Len(e.err.msg) : e.err.msg[i] = e.dist
                   /\ e.added = <<>>
            /\ e.dist \in (pmAttrs \cup dists) /\ e.err.type = "none" =>
                   \/ Constructed(e) # {}
                   \/ FourHold(e)

\* A name in both registries was resolved, to the built-in.
C2_Witness ==
    /\ LastBuild
    /\ \E e \in LogEntries :
          /\ e.dist \in (pmAttrs \cap dists)
          /\ \E v \in Constructed(e) : v.dist.src = "pm"

RECURSIVE OwnClass(_, _)
\* The class of the variable a nested prior becomes, read off the prior.
OwnClass(prior, nc) ==
    IF /\ nc
       /\ \E i \in 1..Len(prior.args) :
             /\ prior.args[i][1] = "sigma"
             /\ prior.args[i][2].tag = "prior"
             /\ OwnClass(prior.args[i][2], nc) = "TransformedRV"
    THEN "Deterministic"
    ELSE IF prior.name \in PmTransformed THEN "TransformedRV" ELSE "FreeRV"

ShapeIn(args, default) ==
    IF \E i \in 1..Len(args) : args[i][1] = "shape"
    THEN LET a == args[CHOOSE i \in 1..Len(args) : args[i][1] = "shape"][2]
         IN IF a.tag = "num" THEN <<a.v>> ELSE a.dims
    ELSE default

RECURSIVE ExpectedOf(_, _, _, _, _)
\* The (name, shape) pairs a prior and its hyperpriors give rise to under label.
ExpectedOf(label, prior, nc, shape, observed) ==
    LET own == IF observed THEN {<<label, shape>>}
               ELSE IF OwnClass(prior, nc) = "Deterministic"
               THEN {<<label \o "_offset", shape>>, <<label, shape>>}
               ELSE IF OwnClass(prior, nc) = "TransformedRV"
               THEN {<<label \o (IF prior.name \in pmAttrs THEN "_log__" ELSE "_lowerbound__"),
                       shape>>, <<label, shape>>}
               ELSE {<<label, shape>>}
    IN own \cup UNION { IF prior.args[i][2].tag = "prior"
                        THEN ExpectedOf(label \o "_" \o prior.args[i][1], prior.args[i][2],
                                        nc, ShapeIn(prior.args[i][2].args, <<>>), FALSE)
                        ELSE {} : i \in 1..Len(prior.args) }

\* The variables of a specification: its terms', their hyperpriors', the response's.
ExpectedGraph(sp) ==
    UNION { ExpectedOf(sp.terms[i].name, sp.terms[i].prior, sp.noncentered,
                       <<Len(sp.terms[i].data[1])>>, FALSE) : i \in 1..Len(sp.terms) }
        \cup ExpectedOf(sp.y.name, sp.family.prior, sp.noncentered, <<sp.y.n>>, TRUE)

GraphOf(m) == {<<m[i].name, m[i].shape>> : i \in 1..Len(m)}

BuiltWithReset == LastBuild /\ last.arg.reset /\ last.err.type = "none"

(* C3: after any earlier calls, a build with reset enabled that completes  *)
(* leaves a model graph whose variable names and shapes are exactly those  *)
(* of the specification's terms, hyperpriors and response: nothing is      *)
(* left over from an earlier build, and the graph depends on the           *)
(* specification alone.                                                    *)
C3_ResetBuildDependsOnSpecOnly ==
    BuiltWithReset =>
        /\ GraphOf(model) = ExpectedGraph(specs[last.arg.sid])
        /\ Cardinality(GraphOf(model)) = Len(model)

\* A build with reset completed on a back-end that held other variables.
C3_Witness ==
    /\ BuiltWithReset
    /\ last.had > 0
    /\ last.arg.sid = "s3"
    /\ \E i \in 1..Len(model) : model[i].name = "x" /\ model[i].shape = <<1>>

(* C7: a random-effect term adds to the predictor, at every row i,         *)
(* coefficient[group_index[i]] times the term's raw predictor at row i;    *)
(* the predictor starts at zero at each build, and holds one contribution  *)
(* per term of the specification, in the terms' order.                     *)
C7_RandomContribution ==
    LastBuild =>
        LET terms == specs[last.arg.sid].terms
        IN /\ mu.set
           /\ Len(mu.terms) <= Len(terms)
           /\ last.err.type = "none" => Len(mu.terms) = Len(terms)
           /\ \A k \in 1..Len(mu.terms) :
                 /\ mu.terms[k].label = terms[k].name
                 /\ Len(mu.terms[k].rows) = NObs
                 /\ terms[k].random =>
                       \A i \in 1..NObs :
                          /\ Len(mu.terms[k].rows[i]) = 1
                          /\ mu.terms[k].rows[i][1].idx = terms[k].group_index[i]
                          /\ mu.terms[k].rows[i][1].scale = terms[k].predictor[i]
                 /\ ~terms[k].random =>
                       \A i \in 1..NObs :
                          /\ Len(mu.terms[k].rows[i]) = Len(terms[k].data[i])
                          /\ \A j \in 1..Len(terms[k].data[i]) :
                                /\ mu.terms[k].rows[i][j].idx = j - 1
                                /\ mu.terms[k].rows[i][j].scale = terms[k].data[i][j]

\* A build without reset, after another build, folded in a random term whose
\* group index differs from the row number.
C7_Witness ==
    /\ LastBuild
    /\ ~last.arg.reset
    /\ last.had > 0
    /\ \E k \in 1..Len(mu.terms) :
          /\ specs[last.arg.sid].terms[k].random
          /\ mu.terms[k].rows[1][1].idx # 0
          /\ mu.terms[k].rows[1][1].idx \in 0..(Len(specs[last.arg.sid].terms[k].data[1]) - 1)

\* A specification without its response prior's arguments.
FrameOf(sp) == [sp EXCEPT !.family.prior.args = <<>>]

\* The response prior's arguments other than the parent's and "observed".
OtherArgs(sp) ==
    SelectSeq(sp.family.prior.args,
              LAMBDA kv : kv[1] \notin {sp.family.parent, "observed"})

HasSlot(sp, k) == \E i \in 1..Len(sp.family.prior.args) : sp.family.prior.args[i][1] = k

(* C10: build writes to the specification only in the response prior's     *)
(* argument mapping, and there only the parent parameter's slot and the    *)
(* "observed" slot: every term, with its prior's name and (nested)         *)
(* arguments, and every other argument of the response prior is after a    *)
(* step what it was before; a build that completes has set both slots.     *)
C10_BuildWritesOnlyResponseSlots ==
    [][\A sid \in SpecIds :
          /\ FrameOf(specs'[sid]) = FrameOf(specs[sid])
          /\ OtherArgs(specs'[sid]) = OtherArgs(specs[sid])
          /\ (last'.op # "build" \/ last'.arg.sid # sid) => specs'[sid] = specs[sid]
          /\ (last'.op = "build" /\ last'.arg.sid = sid /\ last'.err.type = "none") =>
                /\ HasSlot(specs'[sid], specs[sid].family.parent)
                /\ HasSlot(specs'[sid], "observed")]_vars

\* A build has filled the slots of a response prior that has another argument,
\* and the terms still hold their nested hyperpriors.
C10_Witness ==
    /\ LastBuild
    /\ last.err.type = "none"
    /\ last.arg.sid = "s1"
    /\ HasSlot(specs["s1"], "observed")
    /\ HasSlot(specs["s1"], "mu")
    /\ HasSlot(specs["s1"], "sigma")
    /\ specs["s1"].terms[2].prior.args[2][2].tag = "prior"

RECURSIVE NestedLabels(_, _)
\* The (label, owner's label) pairs of the priors nested in args under label.
NestedLabels(label, args) ==
    UNION { IF args[i][2].tag = "prior"
            THEN {<<label \o "_" \o args[i][1], label>>}
                     \cup NestedLabels(label \o "_" \o args[i][1], args[i][2].args)
            ELSE {} : i \in 1..Len(args) }

Pos(name) == CHOOSE i \in 1..Len(model) : model[i].name = name

\* The build ended with no error, or with the KeyError of kwargs["shape"].
EndedOrShapeError ==
    \/ last.err.type = "none"
    \/ last.err = Err("KeyError", <<"shape">>)

(* C9: every nested prior under a term's label L is built as its own       *)
(* variable L_k (L_k_j two levels deep), by exactly one call, before the   *)
(* variable that owns it, and the expansion ends with one variable per     *)
(* nested prior.                                                           *)
C9_HyperpriorsBuiltFirst ==
    (LastBuild /\ last.arg.reset /\ EndedOrShapeError) =>
        \A k \in 1..Len(specs[last.arg.sid].terms) :
            LET t == specs[last.arg.sid].terms[k]
            IN \A pr \in NestedLabels(t.name, t.prior.args) :
                  /\ pr[1] \in Names(model)
                  /\ pr[2] \in Names(model)
                  /\ Pos(pr[1]) < Pos(pr[2])
                  /\ Cardinality({i \in 1..Len(last.log) : last.log[i].label = pr[1]}) = 1

(* C8: the flat vector of standard deviations is split by a cumulative     *)
(* walk in which each variable, in order, gets a contiguous slice as long  *)
(* as its number of elements; the slices are disjoint and cover the       *)
(* vector, whatever the variables' shapes.                                 *)
C8_SlicesBySize ==
    last.lap.inverted =>
        /\ Len(last.lap.slices) = Len(last.lap.sizes)
        /\ \A i \in 1..Len(last.lap.slices) :
              /\ last.lap.slices[i].idx1 - last.lap.slices[i].idx0 = last.lap.sizes[i]
              /\ last.lap.slices[i].got = last.lap.sizes[i]
              /\ last.lap.slices[i].idx0 =
                     IF i = 1 THEN 0 ELSE last.lap.slices[i - 1].idx1
        /\ Len(last.lap.slices) > 0 =>
              last.lap.slices[Len(last.lap.slices)].idx1 = last.lap.n

(* C6: when the determinant of the Hessian is exactly zero, _laplace       *)
(* raises the singular-matrix error before any inversion and returns no    *)
(* result; a result is returned only when the determinant is not zero.     *)
C6_SingularRaises ==
    last.lap.called =>
        /\ last.lap.det = 0 =>
              /\ last.err.type = "LinAlgError"
              /\ ~last.lap.inverted
              /\ ~last.lap.returned
              /\ last.ret = "raise"
        /\ last.lap.inverted => last.lap.det # 0
        /\ last.ret = "dict" => last.lap.det # 0 /\ last.lap.inverted

\* run met a singular Hessian that is not the zero matrix.
C6_Witness ==
    /\ LastRun
    /\ last.lap.called
    /\ last.lap.n >= 2
    /\ last.lap.det = 0
    /\ last.err.type = "LinAlgError"
    /\ Len(model) > 0

\* method is word in some mix of upper and lower case.
SameWord(method, word) ==
    /\ Len(method) = Len(word)
    /\ \A i \in 1..Len(word) : method[i] \in {word[i], UpperChar(word[i])}

Recognised(method) ==
    SameWord(method, MCMC) \/ SameWord(method, ADVI) \/ SameWord(method, LAPLACE)

(* C4: run picks its branch by the method compared without regard to      *)
(* case, and ends in that branch within the one step: the mcmc branch      *)
(* stores the trace and is the only one to write self.trace, the advi      *)
(* branch stores the variational parameters and is the only one to write   *)
(* self.advi_params, and the laplace branch writes nothing on the          *)
(* back-end.                                                               *)
C4_RunDispatch ==
    [][last'.op = "run" =>
          /\ SameWord(last'.arg.method, MCMC) =>
                /\ last'.ret \in {"InferenceData", "raise"}
                /\ last'.ret = "InferenceData" => trace' = FitOf(model)
                /\ last'.ret = "raise" =>
                      trace' = trace /\ last'.err = Err("RuntimeError", <<"pm.sample">>)
                /\ ~last'.lap.called
          /\ SameWord(last'.arg.method, ADVI) =>
                /\ last'.ret \in {"advi_params", "raise"}
                /\ last'.ret = "advi_params" => advi_params' = FitOf(model)
                /\ last'.ret = "raise" =>
                      /\ advi_params' = advi_params
                      /\ last'.err = Err("RuntimeError", <<"pm.variational.ADVI">>)
                /\ ~last'.lap.called
          /\ SameWord(last'.arg.method, LAPLACE) =>
                /\ last'.ret \in {"dict", "raise"}
                /\ last'.lap.called \/ last'.err = Err("RuntimeError", <<"pm.find_MAP">>)
          /\ ~SameWord(last'.arg.method, MCMC) => trace' = trace
          /\ ~SameWord(last'.arg.method, ADVI) => advi_params' = advi_params
          /\ UNCHANGED <<model, mu, par_groups, spec, specs>>]_vars

\* A mixed-case mcmc sampled a built model and stored its trace.
C4_Witness ==
    /\ LastRun
    /\ last.arg.method = <<"M", "c", "M", "C">>
    /\ last.ret = "InferenceData"
    /\ Len(model) > 0
    /\ trace = FitOf(model)
    /\ ~advi_params.set

(* C5: for a method that is none of the three recognised names, whatever   *)
(* its case, run returns None, raises nothing, and leaves the model, the   *)
(* trace and the variational parameters as they were.                      *)
C5_UnknownMethodSilent ==
    [][(last'.op = "run" /\ ~Recognised(last'.arg.method)) =>
          /\ last'.ret = "None"
          /\ last'.err = NoErr
          /\ ~last'.lap.called
          /\ model' = model
          /\ trace' = trace
          /\ advi_params' = advi_params]_vars

\* run was given "mcmc " on a built model that had been sampled before.
C5_Witness ==
    /\ LastRun
    /\ last.arg.method = <<"m", "c", "m", "c", " ">>
    /\ last.ret = "None"
    /\ Len(model) > 0
    /\ trace.set

====
